---- MODULE Spec2Model ----
(***************************************************************************)
(* A model of the job aggregation core of Hunter (src/job_aggregator.py):  *)
(* the two-group scheduler of search_all_sources, the deduplicator and     *)
(* the ranker; of the ProxyManager the two scrapers share                  *)
(* (src/proxy_manager.py); and of the result limit of the search functions *)
(* (src/api_manager.py, src/jobberman_scraper.py).  Text is a sequence of  *)
(* one-character strings, a posting is a function from the keys it holds   *)
(* to values (a text or None), a score is counted in tenths and time in    *)
(* seconds.                                                                *)
(***************************************************************************)
EXTENDS Integers, Sequences, FiniteSets, TLC

VARIABLES
    hasSIGALRM,   \* hasattr(signal, 'SIGALRM'): the platform the build runs on
    pc,           \* where the thread that called search_all_sources stands
    now,          \* seconds since search_all_sources read start_time
    location,     \* the request's location
    include_local, \* the request's include_local
    search_tasks, \* the list _build_search_tasks returned
    fut,          \* per task: the future executor.submit returned
    done_order,   \* futures finished and not yet yielded by as_completed, oldest first
    deadline,     \* end_time of the running as_completed, per group
    timed_out,    \* the groups whose as_completed raised TimeoutError
    jobs,         \* _execute_task_group's local list, per group
    all_jobs,     \* _execute_searches_with_timeout's merged list
    remaining_time, \* max_total_time - elapsed, once computed (else -1)
    degraded,     \* search_all_sources entered its except handler
    outcome,      \* "none" | "returned" | "raised"
    result,       \* the list search_all_sources returned
    returned_some, \* history: some search function returned a non-empty list
    raised_some,  \* history: some search function raised
    dIn, dOut, dOut2, dpc,  \* the deduplicator applied to an arbitrary list
    rIn, rLoc, rOut, rpc,   \* _process_jobs applied to an arbitrary list and location
    proxies,         \* ProxyManager.proxies, as load_proxies left it
    working_proxies, \* ProxyManager.working_proxies
    failed_proxies,  \* ProxyManager.failed_proxies
    current_index,   \* ProxyManager.current_index
    refresh_due,     \* more than 300 seconds have passed since last_test_time
    ipc,             \* where get_working_proxy stands, on the Indeed task's thread
    itest,           \* its test_proxies still to test, in _refresh_working_proxies
    iattempt,        \* the rounds its current loop has begun
    iproxy,          \* its local proxy
    iret,            \* how its last call ended
    icalls,          \* the calls it has ended
    jop,             \* the method called on the Jobberman task's thread
    jpc,             \* where that call stands
    jlist,           \* get_next_proxy's local proxy_list
    jalias,          \* proxy_list is the list object self.working_proxies is bound to
    jproxy,          \* get_next_proxy's local proxy
    jret,            \* how the thread's last call ended
    jcalls,          \* the calls it has ended
    sMax,            \* one call of a source's search function: its max_results
    spc,             \* where the call stands
    sSource,         \* the source called
    sUrl,            \* Jobberman: the search URLs tried
    sCards,          \* the last response: jobs_data, or the page's job_cards
    sElements,       \* Jobberman: the last page's potential_jobs
    sPath,           \* the parse that made the returned postings
    sJobs            \* the list the call returns

aggVars == <<hasSIGALRM, pc, now, location, include_local, search_tasks, fut,
             done_order, deadline,
             timed_out, jobs, all_jobs, remaining_time, degraded, outcome, result,
             returned_some, raised_some>>
dedupVars == <<dIn, dOut, dOut2, dpc>>
rankVars == <<rIn, rLoc, rOut, rpc>>
\* what a run of search_all_sources leaves alone
proxyVars == <<proxies, working_proxies, failed_proxies, current_index, refresh_due,
               ipc, itest, iattempt, iproxy, iret, icalls,
               jop, jpc, jlist, jalias, jproxy, jret, jcalls>>
sourceVars == <<sMax, spc, sSource, sUrl, sCards, sElements, sPath, sJobs>>
pureVars == <<dedupVars, rankVars, proxyVars, sourceVars>>
vars == <<aggVars, pureVars>>

----------------------------------------------------------------------------
(* Text: Python str as a sequence of characters.                           *)

UpperChars == <<"A","B","C","D","E","F","G","H","I","J","K","L","M",
                "N","O","P","Q","R","S","T","U","V","W","X","Y","Z">>
LowerChars == <<"a","b","c","d","e","f","g","h","i","j","k","l","m",
                "n","o","p","q","r","s","t","u","v","w","x","y","z">>
Whitespace == {" ", "\t", "\n"}

LowerChar(c) ==
    IF \E i \in DOMAIN UpperChars : UpperChars[i] = c
    THEN LowerChars[CHOOSE i \in DOMAIN UpperChars : UpperChars[i] = c]
    ELSE c

\* str.lower()
Lower(s) == [i \in 1..Len(s) |-> LowerChar(s[i])]

\* s[:n]
Take(s, n) == IF Len(s) <= n THEN s ELSE SubSeq(s, 1, n)

\* str.strip(): leading and trailing whitespace removed
Strip(s) ==
    LET keep == {i \in 1..Len(s) : s[i] \notin Whitespace}
    IN  IF keep = {} THEN <<>>
        ELSE SubSeq(s, CHOOSE i \in keep : \A j \in keep : i <= j,
                       CHOOSE i \in keep : \A j \in keep : j <= i)

\* sub in s
Contains(s, sub) ==
    \E i \in 0..(Len(s) - Len(sub)) : SubSeq(s, i + 1, i + Len(sub)) = sub

\* s.replace(old, ''), old non-empty: every occurrence removed, left to right
RECURSIVE Remove(_, _)
Remove(s, old) ==
    IF ~Contains(s, old) THEN s
    ELSE IF SubSeq(s, 1, Len(old)) = old
         THEN Remove(SubSeq(s, Len(old) + 1, Len(s)), old)
         ELSE <<s[1]>> \o Remove(Tail(s), old)

\* s.split(): the maximal runs of non-whitespace characters
RECURSIVE Split(_)
Split(s) ==
    IF s = <<>> THEN <<>>
    ELSE IF s[1] \in Whitespace THEN Split(Tail(s))
    ELSE LET ends == {i \in 1..Len(s) : \A j \in 1..i : s[j] \notin Whitespace}
             n == CHOOSE i \in ends : \A j \in ends : j <= i
         IN  <<SubSeq(s, 1, n)>> \o Split(SubSeq(s, n + 1, Len(s)))

\* sep.join(parts)
RECURSIVE Join(_, _)
Join(sep, parts) ==
    IF parts = <<>> THEN <<>>
    ELSE IF Len(parts) = 1 THEN parts[1]
    ELSE parts[1] \o sep \o Join(sep, Tail(parts))

----------------------------------------------------------------------------
(* Postings: Python dicts.  A value is a str or None.                      *)

Str(s) == [kind |-> "str", s |-> s]
None == [kind |-> "none", s |-> <<>>]

\* bool(v) of a dict value
Truthy(v) == v.kind = "str" /\ v.s # <<>>

\* job.get(key, '')
Get(job, key) == IF key \in DOMAIN job THEN job[key] ELSE Str(<<>>)

\* hashlib.md5(key_string.encode()).hexdigest(): the digest of key_string, taken to
\* be collision-free (two digests are equal exactly when the key strings are)
Md5Hex(key_string) == [md5 |-> key_string]

\* _create_job_hash raises AttributeError when a key field holds None (None.lower())
CreateJobHashRaises(job) ==
    \E k \in {"title", "company", "location"} : Get(job, k).kind = "none"

\* the key built without the [:20] slice: the whole location counts
CreateJobHash_FullLocation(job) ==
    LET key_parts == << Strip(Lower(Get(job, "title").s)),
                        Strip(Lower(Get(job, "company").s)),
                        Strip(Lower(Get(job, "location").s)) >>
    IN  Md5Hex(Join(<<"|">>, key_parts))

CreateJobHash(job) ==
    LET key_parts == << Strip(Lower(Get(job, "title").s)),
                        Strip(Lower(Get(job, "company").s)),
                        Take(Strip(Lower(Get(job, "location").s)), 20) >>
    IN  Md5Hex(Join(<<"|">>, key_parts))

DeduplicateRaises(js) == \E i \in 1..Len(js) : CreateJobHashRaises(js[i])

RECURSIVE DedupLoop(_, _, _)
DedupLoop(js, seen_jobs, unique_jobs) ==
    IF js = <<>> THEN unique_jobs
    ELSE LET job_key == CreateJobHash(Head(js))
         IN  IF job_key \notin seen_jobs
             THEN DedupLoop(Tail(js), seen_jobs \cup {job_key}, Append(unique_jobs, Head(js)))
             ELSE DedupLoop(Tail(js), seen_jobs, unique_jobs)

\* the loop run over jobs[:-1]: the last posting is never looked at
DeduplicateJobs_SkipLast(js) ==
    IF js = <<>> THEN <<>> ELSE DedupLoop(SubSeq(js, 1, Len(js) - 1), {}, <<>>)

\* every kept posting replaced by the latest posting with its key
DeduplicateJobs_KeepLast(js) ==
    LET first == DedupLoop(js, {}, <<>>)
    IN  [i \in 1..Len(first) |->
            js[CHOOSE k \in 1..Len(js) :
                  /\ CreateJobHash(js[k]) = CreateJobHash(first[i])
                  /\ \A m \in 1..Len(js) :
                        CreateJobHash(js[m]) = CreateJobHash(first[i]) => m <= k]]

DeduplicateJobs(js) == DedupLoop(js, {}, <<>>)

----------------------------------------------------------------------------
(* The ranker: _is_nigerian_location, _clean_job_data, _calculate_relevance, *)
(* _get_source_reliability_score, _process_jobs.                             *)

nigerian_keywords ==
    { <<"n","i","g","e","r","i","a">>,
      <<"l","a","g","o","s">>,
      <<"a","b","u","j","a">>,
      <<"k","a","n","o">>,
      <<"i","b","a","d","a","n">>,
      <<"c","a","l","a","b","a","r">>,
      <<"p","o","r","t"," ","h","a","r","c","o","u","r","t">>,
      <<"b","e","n","i","n"," ","c","i","t","y">>,
      <<"j","o","s">>,
      <<"i","l","o","r","i","n">>,
      <<"o","w","e","r","r","i">>,
      <<"e","n","u","g","u">>,
      <<"a","b","e","o","k","u","t","a">>,
      <<"o","n","i","t","s","h","a">>,
      <<"w","a","r","r","i">>,
      <<"s","o","k","o","t","o">>,
      <<"k","a","d","u","n","a">>,
      <<"m","a","i","d","u","g","u","r","i">>,
      <<"z","a","r","i","a">>,
      <<"k","a","t","s","i","n","a">>,
      <<"b","a","u","c","h","i">> }

IsNigerianLocation(loc) == \E keyword \in nigerian_keywords : Contains(Lower(loc), keyword)

JobTitleMarker == <<"J","o","b"," ","T","i","t","l","e",":">>
PositionMarker == <<"P","o","s","i","t","i","o","n",":">>
DashCompanyMarker == <<" ","-"," ","C","o","m","p","a","n","y">>
CompanyMarker == <<"C","o","m","p","a","n","y",":">>

required_fields ==
    <<"title", "company", "location", "salary", "link", "description", "job_type", "source">>

\* the dict after cleaned[key] = value
Put(job, key, value) ==
    [k \in DOMAIN job \cup {key} |-> IF k = key THEN value ELSE job[k]]

CleanTitle(job) ==
    IF Truthy(Get(job, "title"))
    THEN Put(job, "title",
             Str(Strip(Remove(Remove(Strip(job["title"].s), JobTitleMarker), PositionMarker))))
    ELSE job

CleanCompany(job) ==
    IF Truthy(Get(job, "company"))
    THEN Put(job, "company",
             Str(Strip(Remove(Remove(Strip(job["company"].s), DashCompanyMarker),
                              CompanyMarker))))
    ELSE job

CleanLocation(job) ==
    IF Truthy(Get(job, "location"))
    THEN Put(job, "location", Str(Join(<<" ">>, Split(Strip(job["location"].s)))))
    ELSE job

CleanSalary(job) ==
    IF Truthy(Get(job, "salary"))
    THEN Put(job, "salary", Str(Strip(job["salary"].s)))
    ELSE job

\* "if field not in cleaned: cleaned[field] = ''": a key holding None is left alone
EnsureFields(job) ==
    [k \in DOMAIN job \cup {required_fields[i] : i \in DOMAIN required_fields} |->
        IF k \in DOMAIN job THEN job[k] ELSE Str(<<>>)]

CleanJobData(job) ==
    EnsureFields(CleanSalary(CleanLocation(CleanCompany(CleanTitle(job)))))

high_indicators ==
    { <<"s","e","n","i","o","r">>, <<"l","e","a","d">>,
      <<"m","a","n","a","g","e","r">>, <<"d","i","r","e","c","t","o","r">> }
spam_indicators ==
    { <<"c","l","i","c","k"," ","h","e","r","e">>,
      <<"a","p","p","l","y"," ","n","o","w","!">>,
      <<"u","r","g","e","n","t","!","!","!">>,
      <<"i","m","m","e","d","i","a","t","e"," ","s","t","a","r","t">> }
HttpText == <<"h","t","t","p">>
HashText == <<"#">>

\* the scores, in tenths

\* a relevance that takes no account of the location
LocationBonus_Never(job, search_location) == 0

\* the partial match tested with "if" instead of "elif": both bonuses for a
\* contained location
LocationBonus_BothApplied(job, search_location) ==
    IF search_location # <<>> /\ Truthy(Get(job, "location"))
    THEN LET job_location == Lower(job["location"].s)
             search_location_lower == Lower(search_location)
             words == Split(search_location_lower)
         IN  (IF Contains(job_location, search_location_lower) THEN 30 ELSE 0)
             + (IF \E i \in 1..Len(words) :
                      Len(words[i]) > 2 /\ Contains(job_location, words[i])
                THEN 15 ELSE 0)
             + (IF IsNigerianLocation(search_location) /\ IsNigerianLocation(job_location)
                THEN 20 ELSE 0)
    ELSE 0

LocationBonus(job, search_location) ==
    IF search_location # <<>> /\ Truthy(Get(job, "location"))
    THEN LET job_location == Lower(job["location"].s)
             search_location_lower == Lower(search_location)
             words == Split(search_location_lower)
         IN  (IF Contains(job_location, search_location_lower) THEN 30
              ELSE IF \E i \in 1..Len(words) :
                         Len(words[i]) > 2 /\ Contains(job_location, words[i])
                   THEN 15 ELSE 0)
             + (IF IsNigerianLocation(search_location) /\ IsNigerianLocation(job_location)
                THEN 20 ELSE 0)
    ELSE 0

SalaryBonus(job) ==
    IF Truthy(Get(job, "salary")) /\ Strip(job["salary"].s) # <<>>
    THEN 15 + (IF \E h \in high_indicators : Contains(Lower(job["salary"].s), h)
               THEN 5 ELSE 0)
    ELSE 0

DescriptionBonus(job) ==
    IF Truthy(Get(job, "description"))
    THEN LET desc_len == Len(job["description"].s)
         IN  IF desc_len > 150 THEN 12
             ELSE IF desc_len > 75 THEN 8
             ELSE IF desc_len > 25 THEN 4 ELSE 0
    ELSE 0

LinkBonus(job) ==
    IF /\ Truthy(Get(job, "link"))
       /\ job["link"].s # HashText
       /\ Contains(job["link"].s, HttpText)
    THEN 10 ELSE 0

CompanyBonus(job) ==
    IF Truthy(Get(job, "company")) /\ Len(job["company"].s) > 3 THEN 5 ELSE 0

\* the upper end of the title length taken with "<=": 100 characters count
TitleBonus_UpTo100(job) ==
    IF Truthy(Get(job, "title"))
    THEN LET title == Lower(job["title"].s)
         IN  (IF Len(title) > 10 /\ Len(title) <= 100 THEN 5 ELSE 0)
             - (IF \E spam \in spam_indicators : Contains(title, spam) THEN 20 ELSE 0)
    ELSE 0

TitleBonus(job) ==
    IF Truthy(Get(job, "title"))
    THEN LET title == Lower(job["title"].s)
         IN  (IF Len(title) > 10 /\ Len(title) < 100 THEN 5 ELSE 0)
             - (IF \E spam \in spam_indicators : Contains(title, spam) THEN 20 ELSE 0)
    ELSE 0

Max(a, b) == IF a >= b THEN a ELSE b

\* the sum of the score items, returned without the floor
CalculateRelevance_NoFloor(job, search_location) ==
    10 + LocationBonus(job, search_location) + SalaryBonus(job) + DescriptionBonus(job)
       + LinkBonus(job) + CompanyBonus(job) + TitleBonus(job)

CalculateRelevance(job, search_location) ==
    Max(10 + LocationBonus(job, search_location) + SalaryBonus(job) + DescriptionBonus(job)
           + LinkBonus(job) + CompanyBonus(job) + TitleBonus(job), 1)

T_JSearch == <<"J","S","e","a","r","c","h">>
T_Indeed == <<"I","n","d","e","e","d">>
T_Jooble == <<"J","o","o","b","l","e">>
T_Adzuna == <<"A","d","z","u","n","a">>
T_Jobberman == <<"J","o","b","b","e","r","m","a","n">>

\* reliability_scores.get(source, 1.0); a source of None is no key of the table
GetSourceReliabilityScore(source) ==
    IF source = Str(T_JSearch) THEN 30
    ELSE IF source = Str(T_Indeed) THEN 25
    ELSE IF source = Str(T_Jooble) THEN 20
    ELSE IF source = Str(T_Adzuna) THEN 20
    ELSE IF source = Str(T_Jobberman) THEN 15
    ELSE 10

\* a processed posting: the cleaned dict and the two scores written to it
Scored(job, search_location) ==
    LET processed_job == CleanJobData(job)
    IN  [job |-> processed_job,
         relevance_score |-> CalculateRelevance(processed_job, search_location),
         source_score |-> GetSourceReliabilityScore(Get(processed_job, "source"))]

Combined(x) == x.relevance_score + x.source_score

\* list.sort(key=..., reverse=True): stable, descending
RECURSIVE InsertDesc(_, _)
InsertDesc(sorted, x) ==
    IF sorted = <<>> THEN <<x>>
    ELSE IF Combined(Head(sorted)) >= Combined(x)
         THEN <<Head(sorted)>> \o InsertDesc(Tail(sorted), x)
         ELSE <<x>> \o sorted

RECURSIVE SortDesc(_)
SortDesc(xs) ==
    IF xs = <<>> THEN <<>>
    ELSE InsertDesc(SortDesc(SubSeq(xs, 1, Len(xs) - 1)), xs[Len(xs)])

\* the scored postings sorted with the later of two equals first
ProcessJobs_TiesReversed(js, search_location) ==
    SortDesc([i \in 1..Len(js) |-> Scored(js[Len(js) + 1 - i], search_location)])

ProcessJobs(js, search_location) ==
    SortDesc([i \in 1..Len(js) |-> Scored(js[i], search_location)])

\* a dict value that is a number
Num(n) == [kind |-> "num", s |-> << >>, n |-> n]

\* _clean_job_data working on its argument ("cleaned = job"): the cleaned fields,
\* the defaults and the two scores are written to the caller's posting
InputsAfterProcessJobs_NoCopy(js, search_location) ==
    [i \in 1..Len(js) |->
        Put(Put(Scored(js[i], search_location).job,
                "relevance_score", Num(Scored(js[i], search_location).relevance_score)),
            "source_score", Num(Scored(js[i], search_location).source_score))]

\* what the postings of the list handed to _process_jobs hold when it has
\* returned: "cleaned = job.copy()" makes a new dict for every posting, the
\* values are str, and every assignment of _clean_job_data and _process_jobs
\* is to the new dict
InputsAfterProcessJobs(js, search_location) == js

----------------------------------------------------------------------------
(* The scheduler: search_all_sources, _build_search_tasks,                  *)
(* _execute_searches_with_timeout, _execute_task_group and                  *)
(* _safe_search_with_timeout.                                               *)

max_total_time == 75
api_timeout == 15
scraper_timeout == 30
jobberman_timeout == 25
api_group_timeout == 20
min_remaining_time == 10

\* The clock is read at the instants the code's comparisons tell apart: the start,
\* the end_time of the API group, the last instant at which remaining_time is not
\* over 10 and Slack seconds either side of it, the budget's end and Slack seconds
\* past it.
Slack == 5
Instants ==
    { 0, api_group_timeout,
      max_total_time - min_remaining_time - Slack,
      max_total_time - min_remaining_time,
      max_total_time - min_remaining_time + Slack,
      max_total_time, max_total_time + Slack }
NextInstant(t) == CHOOSE u \in Instants : u > t /\ \A v \in Instants : v > t => u <= v

Groups == {"api", "scraper"}

Task(name, source, type, timeout) ==
    [name |-> name, source |-> source, type |-> type, timeout |-> timeout]

\* the task list with Jobberman appended whatever the request
BuildSearchTasks_JobbermanAlways(is_nigerian_search, incl_local) ==
    << Task("JSearch API", T_JSearch, "api", api_timeout),
       Task("Jooble API", T_Jooble, "api", api_timeout),
       Task("Adzuna API", T_Adzuna, "api", api_timeout),
       Task("Jobberman", T_Jobberman, "scraper", jobberman_timeout),
       Task("Indeed", T_Indeed, "scraper", scraper_timeout) >>

BuildSearchTasks(is_nigerian_search, incl_local) ==
    LET api_tasks == << Task("JSearch API", T_JSearch, "api", api_timeout),
                        Task("Jooble API", T_Jooble, "api", api_timeout),
                        Task("Adzuna API", T_Adzuna, "api", api_timeout) >>
        jobberman == IF is_nigerian_search \/ incl_local
                     THEN << Task("Jobberman", T_Jobberman, "scraper", jobberman_timeout) >>
                     ELSE << >>
        indeed == << Task("Indeed", T_Indeed, "scraper", scraper_timeout) >>
    IN  api_tasks \o jobberman \o indeed

\* the indices of search_tasks that belong to a group: [task for task in search_tasks
\* if task[2] == group]
GroupTasks(g) == {i \in 1..Len(search_tasks) : search_tasks[i].type = g}

(* Text of the postings the sources hand over in this model. *)
T_Dev == <<"D","e","v">>
T_dev_ == <<"d","e","v"," ">>
T_Ops == <<"O","p","s">>
T_QA == <<"Q","A">>
T_Acme == <<"A","c","m","e">>
T_Lagos == <<"L","a","g","o","s">>
T_Remote == <<"R","e","m","o","t","e">>
T_Link == <<"h","t","t","p",":","/","/","x">>

Posting(title, company, loc, source) ==
    [k \in {"title", "company", "location", "link", "source"} |->
        CASE k = "title" -> title
          [] k = "company" -> company
          [] k = "location" -> loc
          [] k = "link" -> Str(T_Link)
          [] k = "source" -> Str(source)]

\* What a source's search function may return when it returns: at most
\* max_results_per_source postings.  JSearch hands over employer_name and
\* job_employment_type as they came (api_manager.py lines 403 and 408), so its
\* company and its job_type may be None.
SourceOutputs(source) ==
    CASE source = T_JSearch ->
            { << >>,
              << Posting(Str(T_Dev), Str(T_Acme), Str(T_Lagos), T_JSearch),
                 Put(Posting(Str(T_Ops), Str(T_Acme), Str(T_Remote), T_JSearch),
                     "job_type", None) >>,
              << Posting(Str(T_QA), None, Str(T_Remote), T_JSearch) >> }
      [] source = T_Jooble ->
            { << >>,
              << Posting(Str(T_dev_), Str(T_Acme), Str(T_Lagos), T_Jooble) >> }
      [] source = T_Adzuna ->
            { << >>,
              << Posting(Str(T_QA), Str(T_Acme), Str(T_Lagos), T_Adzuna) >> }
      [] source = T_Jobberman ->
            { << >>,
              << Posting(Str(T_Ops), Str(T_Acme), Str(T_Lagos), T_Jobberman) >> }
      [] source = T_Indeed ->
            { << >>,
              << Posting(Str(T_Dev), Str(T_Acme), Str(T_Lagos), T_Indeed) >> }

\* What a call of a source's search function does, if it ends: it raises or returns
SourceBehaviours(source) ==
    { [how |-> "raise", out |-> << >>] }
    \cup { [how |-> "return", out |-> o] : o \in SourceOutputs(source) }

\* The posting an "except" branch would hand back for an error, were it not []
ErrorPosting == [k \in {"error"} |-> Str(<<"e","r","r">>)]

\* _safe_search_with_timeout with the exception of the search function let through
SafeSearchWithTimeout_Unguarded(has_alarm, beh) ==
    IF has_alarm
    THEN [how |-> "sigerr", called |-> FALSE, result |-> << >>, exc |-> FALSE]
    ELSE [how |-> beh.how, called |-> TRUE, result |-> beh.out, exc |-> beh.how = "raise"]

\* _safe_search_with_timeout with "except Exception" returning a posting that
\* describes the error
SafeSearchWithTimeout_ErrorDict(has_alarm, beh) ==
    IF has_alarm
    THEN [how |-> "sigerr", called |-> FALSE, result |-> << >>, exc |-> FALSE]
    ELSE [how |-> beh.how, called |-> TRUE,
          result |-> IF beh.how = "raise" THEN <<ErrorPosting>> ELSE beh.out,
          exc |-> FALSE]

\* _safe_search_with_timeout as the pool's worker thread runs it.  With SIGALRM,
\* signal.signal() is called off the main thread and raises ValueError before
\* search_func is called; "except Exception" turns that into [].  Without SIGALRM
\* no timer is set and search_func runs for as long as it takes.
SafeSearchWithTimeout(has_alarm, beh) ==
    IF has_alarm
    THEN [how |-> "sigerr", called |-> FALSE, result |-> << >>, exc |-> FALSE]
    ELSE [how |-> beh.how, called |-> TRUE,
          result |-> IF beh.how = "raise" THEN << >> ELSE beh.out,
          exc |-> FALSE]

\* a future: late says that it finished when end_time of its group had passed
NoFuture == [state |-> "none", how |-> "none", called |-> FALSE, result |-> << >>,
             exc |-> FALSE, late |-> FALSE, yielded |-> FALSE]
RunningFuture == [NoFuture EXCEPT !.state = "running"]

\* the pool left without waiting for its workers (shutdown(wait=False))
AllFinished_NoWait(g) == TRUE

AllFinished(g) == \A i \in GroupTasks(g) : fut[i].state = "finished"
SomeRunning(g) == \E i \in GroupTasks(g) : fut[i].state = "running"

\* how a call of a ProxyManager method ended
NoReturn == [how |-> "none", proxy |-> 0]
Returned(p) == [how |-> "returned", proxy |-> p]
ReturnedNone == [how |-> "returned", proxy |-> 0]
Raised(e) == [how |-> e, proxy |-> 0]

\* the manager as __init__ left it, no proxy loaded, no call in progress
ProxyThreadsIdle ==
    /\ ipc = "idle" /\ itest = << >> /\ iattempt = 0 /\ iproxy = 0
    /\ iret = NoReturn /\ icalls = 0
    /\ jop = "none" /\ jpc = "idle" /\ jlist = << >> /\ jalias = FALSE /\ jproxy = 0
    /\ jret = NoReturn /\ jcalls = 0

ProxyManagerNew ==
    /\ working_proxies = << >>
    /\ failed_proxies = << >>
    /\ current_index = 0
    /\ refresh_due = TRUE

ProxyOff == proxies = << >> /\ ProxyManagerNew /\ ProxyThreadsIdle

\* the pure functions are not being applied
SourcesOff ==
    /\ sMax = 0 /\ spc = "off" /\ sSource = "none" /\ sUrl = 0
    /\ sCards = << >> /\ sElements = << >> /\ sPath = "none" /\ sJobs = << >>
DedupOff == dIn = << >> /\ dOut = << >> /\ dOut2 = << >> /\ dpc = "off"
RankOff == rIn = << >> /\ rLoc = << >> /\ rOut = << >> /\ rpc = "off"

Init ==
    /\ hasSIGALRM \in BOOLEAN
    /\ pc = "idle"
    /\ now = 0
    /\ location = << >>
    /\ include_local = FALSE
    /\ search_tasks = << >>
    /\ fut = << >>
    /\ done_order = << >>
    /\ deadline = [g \in Groups |-> -1]
    /\ timed_out = {}
    /\ jobs = [g \in Groups |-> << >>]
    /\ all_jobs = << >>
    /\ remaining_time = -1
    /\ degraded = FALSE
    /\ outcome = "none"
    /\ result = << >>
    /\ returned_some = FALSE
    /\ raised_some = FALSE
    /\ DedupOff
    /\ RankOff
    /\ ProxyOff
    /\ SourcesOff

Locations == {T_Lagos, T_Remote}

\* search_all_sources up to the first wait: the tasks are built, the API group is
\* submitted to its pool (three workers for three tasks: each starts at once) and
\* as_completed starts with end_time = now + group_timeout
SearchAllSources(loc, incl) ==
    /\ pc = "idle"
    /\ location' = loc
    /\ include_local' = incl
    /\ search_tasks' = BuildSearchTasks(IsNigerianLocation(loc), incl)
    /\ fut' = [i \in 1..Len(search_tasks') |->
                 IF search_tasks'[i].type = "api" THEN RunningFuture ELSE NoFuture]
    /\ deadline' = [deadline EXCEPT !["api"] = now + api_group_timeout]
    /\ pc' = "api_collect"
    /\ UNCHANGED <<hasSIGALRM, now, done_order, timed_out, jobs, all_jobs,
                   remaining_time, degraded, outcome, result, returned_some,
                   raised_some, pureVars>>

Collecting(g) == pc = IF g = "api" THEN "api_collect" ELSE "scraper_collect"
Exiting(g) == pc = IF g = "api" THEN "api_exit" ELSE "scraper_exit"
ExitPc(g) == IF g = "api" THEN "api_exit" ELSE "scraper_exit"

\* a worker thread's call of _safe_search_with_timeout ends and sets its future;
\* as_completed, while it runs, is told of it
WorkerFinish(i, beh) ==
    /\ i \in DOMAIN fut
    /\ fut[i].state = "running"
    /\ LET r == SafeSearchWithTimeout(hasSIGALRM, beh)
           g == search_tasks[i].type
       IN  /\ fut' = [fut EXCEPT ![i] = [state |-> "finished", how |-> r.how,
                                         called |-> r.called, result |-> r.result,
                                         exc |-> r.exc, late |-> now >= deadline[g],
                                         yielded |-> FALSE]]
           /\ done_order' = IF Collecting(g) THEN Append(done_order, i) ELSE done_order
           /\ returned_some' = (returned_some \/ (r.called /\ beh.out # << >>))
           /\ raised_some' = (raised_some \/ (r.called /\ beh.how = "raise"))
    /\ UNCHANGED <<hasSIGALRM, pc, now, location, include_local, search_tasks,
                   deadline, timed_out, jobs, all_jobs, remaining_time, degraded,
                   outcome, result, pureVars>>

\* one turn of the as_completed loop: the oldest finished future is yielded,
\* future.result() is read and the postings are appended to jobs; an exception
\* held by the future is logged.  After the last future the loop ends.
Collect(g) ==
    /\ Collecting(g)
    /\ done_order # << >>
    /\ LET i == Head(done_order)
       IN  /\ fut' = [fut EXCEPT ![i].yielded = TRUE]
           /\ jobs' = [jobs EXCEPT ![g] = IF fut[i].exc THEN @ ELSE @ \o fut[i].result]
           /\ pc' = IF \A j \in GroupTasks(g) \ {i} : fut[j].yielded
                    THEN ExitPc(g) ELSE pc
    /\ done_order' = Tail(done_order)
    /\ UNCHANGED <<hasSIGALRM, now, location, include_local, search_tasks, deadline,
                   timed_out, all_jobs, remaining_time, degraded, outcome, result,
                   returned_some, raised_some, pureVars>>

\* what "except concurrent.futures.TimeoutError" leaves in jobs: nothing is removed
\* (future.cancel() on a running future does nothing)
JobsAfterTimeout(js) == js

\* as_completed finds end_time passed with futures pending and raises
\* TimeoutError.  The loop is woken by every completion and its body takes no
\* time, so nothing finished is waiting when it raises.
GroupTimeout(g) ==
    /\ Collecting(g)
    /\ done_order = << >>
    /\ now >= deadline[g]
    /\ timed_out' = timed_out \cup {g}
    /\ jobs' = [jobs EXCEPT ![g] = JobsAfterTimeout(@)]
    /\ pc' = ExitPc(g)
    /\ UNCHANGED <<hasSIGALRM, now, location, include_local, search_tasks, fut,
                   done_order, deadline, all_jobs, remaining_time, degraded, outcome,
                   result, returned_some, raised_some, pureVars>>

\* remaining_time > 10
RunScrapers(remaining) == remaining > min_remaining_time

\* "with ThreadPoolExecutor" exits: shutdown(wait=True) returns once every worker
\* is through.  The API postings are merged, remaining_time is computed and the
\* scraper group is submitted with group_timeout = remaining_time ...
ApiGroupDoneRunScrapers ==
    /\ Exiting("api")
    /\ AllFinished("api")
    /\ RunScrapers(max_total_time - now)
    /\ all_jobs' = all_jobs \o jobs["api"]
    /\ remaining_time' = max_total_time - now
    /\ fut' = [i \in DOMAIN fut |->
                 IF search_tasks[i].type = "scraper" THEN RunningFuture ELSE NoFuture]
    /\ done_order' = << >>
    /\ deadline' = [deadline EXCEPT !["scraper"] = now + (max_total_time - now)]
    /\ pc' = "scraper_collect"
    /\ UNCHANGED <<hasSIGALRM, now, location, include_local, search_tasks, timed_out,
                   jobs, degraded, outcome, result, returned_some, raised_some,
                   pureVars>>

\* ... or the scrapers are left out
ApiGroupDoneSkipScrapers ==
    /\ Exiting("api")
    /\ AllFinished("api")
    /\ ~RunScrapers(max_total_time - now)
    /\ all_jobs' = all_jobs \o jobs["api"]
    /\ remaining_time' = max_total_time - now
    /\ fut' = [i \in DOMAIN fut |-> NoFuture]
    /\ done_order' = << >>
    /\ pc' = "process"
    /\ UNCHANGED <<hasSIGALRM, now, location, include_local, search_tasks, deadline,
                   timed_out, jobs, degraded, outcome, result, returned_some,
                   raised_some, pureVars>>

ScraperGroupDone ==
    /\ Exiting("scraper")
    /\ AllFinished("scraper")
    /\ all_jobs' = all_jobs \o jobs["scraper"]
    /\ fut' = [i \in DOMAIN fut |-> NoFuture]
    /\ done_order' = << >>
    /\ pc' = "process"
    /\ UNCHANGED <<hasSIGALRM, now, location, include_local, search_tasks, deadline,
                   timed_out, jobs, remaining_time, degraded, outcome, result,
                   returned_some, raised_some, pureVars>>

\* "Process results" in the try block, no exception
ReturnProcessed ==
    /\ pc = "process"
    /\ ~DeduplicateRaises(all_jobs)
    /\ result' = ProcessJobs(DeduplicateJobs(all_jobs), location)
    /\ outcome' = "returned"
    /\ pc' = "done"
    /\ UNCHANGED <<hasSIGALRM, now, location, include_local, search_tasks, fut,
                   done_order, deadline, timed_out, jobs, all_jobs, remaining_time,
                   degraded, returned_some, raised_some, pureVars>>

\* _deduplicate_jobs raised in the try block: the except branch runs the same two
\* calls on all_jobs again, outside any try
HandleException ==
    /\ pc = "process"
    /\ DeduplicateRaises(all_jobs)
    /\ degraded' = TRUE
    /\ IF all_jobs # << >>
       THEN IF DeduplicateRaises(all_jobs)
            THEN outcome' = "raised" /\ result' = << >>
            ELSE outcome' = "returned"
                 /\ result' = ProcessJobs(DeduplicateJobs(all_jobs), location)
       ELSE outcome' = "returned" /\ result' = << >>
    /\ pc' = "done"
    /\ UNCHANGED <<hasSIGALRM, now, location, include_local, search_tasks, fut,
                   done_order, deadline, timed_out, jobs, all_jobs, remaining_time,
                   returned_some, raised_some, pureVars>>

\* Time passes only while the calling thread waits: in as_completed with nothing
\* finished to yield and end_time ahead, or in shutdown(wait=True) for a worker.
\* A worker that fails in signal.signal() takes no time: no second passes while
\* one is running.
Tick ==
    /\ \E u \in Instants : u > now
    /\ ~(hasSIGALRM /\ \E i \in DOMAIN fut : fut[i].state = "running")
    /\ \E g \in Groups :
          \/ Collecting(g) /\ done_order = << >> /\ now < deadline[g]
          \/ Exiting(g) /\ SomeRunning(g)
    /\ now' = NextInstant(now)
    /\ UNCHANGED <<hasSIGALRM, pc, location, include_local, search_tasks, fut,
                   done_order, deadline, timed_out, jobs, all_jobs, remaining_time,
                   degraded, outcome, result, returned_some, raised_some, pureVars>>

Next ==
    \/ \E loc \in Locations, incl \in BOOLEAN : SearchAllSources(loc, incl)
    \/ \E i \in DOMAIN fut : \E beh \in SourceBehaviours(search_tasks[i].source) :
          WorkerFinish(i, beh)
    \/ \E g \in Groups : Collect(g)
    \/ \E g \in Groups : GroupTimeout(g)
    \/ ApiGroupDoneRunScrapers
    \/ ApiGroupDoneSkipScrapers
    \/ ScraperGroupDone
    \/ ReturnProcessed
    \/ HandleException
    \/ Tick

Spec == Init /\ [][Next]_vars

----------------------------------------------------------------------------
(* The deduplicator applied to an arbitrary list of at most MaxJobs postings. *)

MaxJobs == 3

T_LagosIslandA ==
    <<"L","a","g","o","s"," ","I","s","l","a","n","d",","," ","L","a","g","o","s"," ",
      "S","t","a","t","e">>
T_LagosIslandB ==
    <<" ","l","a","g","o","s"," ","I","s","l","a","n","d",","," ","L","a","g","o","s"," ",
      "N","G">>

\* postings that collide on the key (case, outer whitespace, the location past its
\* twentieth character) and postings that do not; one holds no location at all
DedupPool ==
    { Posting(Str(T_Dev), Str(T_Acme), Str(T_Lagos), T_JSearch),
      Posting(Str(T_dev_), Str(T_Acme), Str(T_Lagos), T_Jooble),
      Posting(Str(T_Ops), Str(T_Acme), Str(T_LagosIslandA), T_JSearch),
      Posting(Str(T_Ops), Str(T_Acme), Str(T_LagosIslandB), T_Indeed),
      Posting(Str(T_Ops), Str(T_Acme), Str(T_Lagos), T_Adzuna),
      [k \in {"title", "company"} |-> IF k = "title" THEN Str(T_Ops) ELSE Str(T_Acme)] }

SeqsUpTo(S, n) == UNION { [1..m -> S] : m \in 0..n }

InitDedup ==
    /\ hasSIGALRM = FALSE
    /\ pc = "idle"
    /\ now = 0
    /\ location = << >>
    /\ include_local = FALSE
    /\ search_tasks = << >>
    /\ fut = << >>
    /\ done_order = << >>
    /\ deadline = [g \in Groups |-> -1]
    /\ timed_out = {}
    /\ jobs = [g \in Groups |-> << >>]
    /\ all_jobs = << >>
    /\ remaining_time = -1
    /\ degraded = FALSE
    /\ outcome = "none"
    /\ result = << >>
    /\ returned_some = FALSE
    /\ raised_some = FALSE
    /\ dIn \in SeqsUpTo(DedupPool, MaxJobs)
    /\ dOut = << >> /\ dOut2 = << >> /\ dpc = "in"
    /\ RankOff
    /\ ProxyOff
    /\ SourcesOff

DedupFirst ==
    /\ dpc = "in"
    /\ dOut' = DeduplicateJobs(dIn)
    /\ dpc' = "once"
    /\ UNCHANGED <<aggVars, dIn, dOut2, rankVars, proxyVars, sourceVars>>

DedupSecond ==
    /\ dpc = "once"
    /\ dOut2' = DeduplicateJobs(dOut)
    /\ dpc' = "twice"
    /\ UNCHANGED <<aggVars, dIn, dOut, rankVars, proxyVars, sourceVars>>

NextDedup == DedupFirst \/ DedupSecond

SpecDedup == InitDedup /\ [][NextDedup]_vars

----------------------------------------------------------------------------
(* Properties of the deduplicator and of the scheduler. *)

\* the indices of js whose posting is the first of js with its key
FirstOfKey(js) ==
    {i \in 1..Len(js) : \A j \in 1..(i - 1) : CreateJobHash(js[j]) # CreateJobHash(js[i])}

\* the n-th smallest element of a set of numbers
Nth(S, n) == CHOOSE x \in S : Cardinality({y \in S : y < x}) = n - 1

\* C9: _deduplicate_jobs is idempotent: applied to its own output it returns that
\* output unchanged.
C9_DedupIdempotent == dpc = "twice" => dOut2 = dOut

\* C9's case: the first pass dropped a duplicate and kept two postings
C9_Witness == dpc = "twice" /\ Len(dOut) = 2 /\ Len(dIn) = 3

\* C10: the output of _deduplicate_jobs is the input restricted to the postings
\* that are the first with their key, in the input's order.
C10_DedupFirstSeenSubsequence ==
    dpc # "in" =>
        /\ Len(dOut) = Cardinality(FirstOfKey(dIn))
        /\ \A n \in 1..Len(dOut) : dOut[n] = dIn[Nth(FirstOfKey(dIn), n)]

\* C10's case: two different postings with one key, a posting with another key
\* between them; the first of the two is kept, then the other key's posting
C10_Witness ==
    /\ dpc = "once"
    /\ Len(dIn) = 3
    /\ CreateJobHash(dIn[1]) = CreateJobHash(dIn[3])
    /\ dIn[1] # dIn[3]
    /\ dOut = <<dIn[1], dIn[2]>>


\* r is a block of consecutive postings of js
IsBlock(r, js) == \E k \in 0..(Len(js) - Len(r)) : SubSeq(js, k + 1, k + Len(r)) = r

RECURSIVE ConcatInOrder(_, _)
\* the results of the yielded futures among tasks n..Len(search_tasks) of group g,
\* in task order
ConcatInOrder(g, n) ==
    IF n > Len(search_tasks) THEN << >>
    ELSE (IF search_tasks[n].type = g /\ fut[n].yielded THEN fut[n].result ELSE << >>)
         \o ConcatInOrder(g, n + 1)

\* C1: search_all_sources never lets an exception out to its caller.
C1_NeverRaises == outcome # "raised"

\* C2: search_all_sources has returned once max_total_time has passed: it is not
\* held up by a task that is still running.
C2_ReturnsWithinBudget == now > max_total_time => pc = "done"

\* C3: an exception of a search function never reaches the future (it is caught in
\* _safe_search_with_timeout and the task returns []), and when a task of a group
\* raised, every other task of the group that finished before end_time has been
\* yielded and its postings stand as a block in the group's list.
C3_RaiseIsolated ==
    \A i \in DOMAIN fut :
        /\ fut[i].state = "finished" => ~fut[i].exc
        /\ fut[i].how = "raise" =>
              /\ fut[i].result = << >>
              /\ LET g == search_tasks[i].type
                 IN  \A j \in GroupTasks(g) \ {i} :
                        (Exiting(g) /\ fut[j].state = "finished" /\ ~fut[j].late)
                            => (fut[j].yielded /\ IsBlock(fut[j].result, jobs[g]))

\* C3's case: the API group is through, one of its tasks raised and two others
\* returned postings, which are in the group's list
C3_Witness ==
    /\ Exiting("api")
    /\ \E i \in GroupTasks("api") : fut[i].how = "raise"
    /\ Cardinality({j \in GroupTasks("api") : fut[j].yielded /\ fut[j].result # << >>}) = 2
    /\ Len(jobs["api"]) >= 2

\* C4: the list a group hands on holds the tasks' postings in submission order,
\* whatever the order in which the tasks finished.
C4_SubmissionOrder ==
    \A g \in Groups : Exiting(g) => jobs[g] = ConcatInOrder(g, 1)

\* C5: when no search function returned a posting (each returned an empty list or
\* raised), search_all_sources returns the empty list.
C5_AllEmptyGivesEmpty ==
    (pc = "done" /\ ~returned_some) => (outcome = "returned" /\ result = << >>)

\* C5's case: the search functions were called, one raised, none returned a
\* posting, and the search is over
C5_Witness ==
    /\ pc = "done" /\ ~hasSIGALRM /\ raised_some /\ ~returned_some
    /\ outcome = "returned" /\ result = << >>

\* p is in the list search_all_sources returned: as the cleaned copy of itself or
\* of the posting of all_jobs that stands for its key
InFinalResult(p) ==
    \E n \in 1..Len(all_jobs) :
        /\ CreateJobHash(all_jobs[n]) = CreateJobHash(p)
        /\ \E m \in 1..Len(result) : result[m].job = CleanJobData(all_jobs[n])

\* C6: when as_completed of a group timed out, the postings of every task that
\* finished before end_time are in the group's list, and, once the search is
\* over, in the list search_all_sources returned.
C6_FinishedSurviveTimeout ==
    /\ \A g \in timed_out : \A i \in GroupTasks(g) :
          (Exiting(g) /\ fut[i].state = "finished" /\ ~fut[i].late)
              => (fut[i].yielded /\ IsBlock(fut[i].result, jobs[g]))
    /\ (pc = "done" /\ timed_out # {}) =>
          \A n \in 1..Len(all_jobs) : InFinalResult(all_jobs[n])

\* C7: when dedup or ranking raised on the merged postings, search_all_sources
\* still returns, and returns postings whenever postings had been merged.
C7_DegradedFallsBack ==
    (pc = "done" /\ degraded) =>
        (outcome = "returned" /\ (all_jobs # << >> => result # << >>))

\* the scraper group was submitted
ScrapersSubmitted == deadline["scraper"] # -1

\* C8: once the API group is through, the scraper group is submitted exactly when
\* remaining_time is at least 10 seconds, 10 included.
C8_SlowIffRemainingAtLeastThreshold ==
    pc \in {"scraper_collect", "scraper_exit", "process", "done"} =>
        (ScrapersSubmitted <=> remaining_time >= min_remaining_time)

\* the three fields the key is made of, each normalised on its own
KeyFields(job) ==
    [title |-> Strip(Lower(Get(job, "title").s)),
     company |-> Strip(Lower(Get(job, "company").s)),
     location |-> Take(Strip(Lower(Get(job, "location").s)), 20)]

\* the keys of the postings of js
KeysOf(js) == {CreateJobHash(js[i]) : i \in 1..Len(js)}

----------------------------------------------------------------------------
(* _process_jobs applied to an arbitrary list of at most MaxRanked postings *)
(* and a search location.                                                   *)

MaxRanked == 3

T_SeniorBackendEngineer ==
    <<"S","e","n","i","o","r"," ","B","a","c","k","e","n","d"," ",
      "E","n","g","i","n","e","e","r">>
T_Salary == <<"$","5","0",",","0","0","0","-","$","7","0",",","0","0","0">>
T_JobLink ==
    <<"h","t","t","p","s",":","/","/","x",".","c","o","m","/","j","o","b","/","1">>
T_ClickHere == <<"C","l","i","c","k"," ","h","e","r","e">>
T_Other == <<"O","t","h","e","r">>
Description200 == [i \in 1..200 |-> "x"]

\* the posting of the spec's scoring example
ExamplePosting ==
    [k \in {"title", "company", "location", "salary", "description", "link", "source"} |->
        CASE k = "title" -> Str(T_SeniorBackendEngineer)
          [] k = "company" -> Str(T_Acme)
          [] k = "location" -> Str(T_Remote)
          [] k = "salary" -> Str(T_Salary)
          [] k = "description" -> Str(Description200)
          [] k = "link" -> Str(T_JobLink)
          [] k = "source" -> Str(T_JSearch)]

\* postings with different combined scores, two different postings with the same
\* combined score, spam titles with and without bonuses, a source that is no key
\* of the reliability table, keys that are missing and keys that hold None
RankPool ==
    { ExamplePosting,
      Put(ExamplePosting, "source", Str(T_Indeed)),
      Posting(Str(T_Dev), Str(T_Acme), Str(T_Lagos), T_Jooble),
      Posting(Str(T_QA), Str(T_Acme), Str(T_Lagos), T_Adzuna),
      [k \in {"title", "source"} |->
          IF k = "title" THEN Str(T_ClickHere) ELSE Str(T_Other)],
      Posting(Str(T_ClickHere), Str(T_Acme), Str(T_Lagos), T_Other),
      Put(Put(Posting(Str(T_Ops), Str(T_Acme), Str(T_Remote), T_JSearch), "salary", None),
          "job_type", None) }

\* no search is running: the aggregator as __init__ left it
AggregatorIdle ==
    /\ hasSIGALRM = FALSE
    /\ pc = "idle"
    /\ now = 0
    /\ location = << >>
    /\ include_local = FALSE
    /\ search_tasks = << >>
    /\ fut = << >>
    /\ done_order = << >>
    /\ deadline = [g \in Groups |-> -1]
    /\ timed_out = {}
    /\ jobs = [g \in Groups |-> << >>]
    /\ all_jobs = << >>
    /\ remaining_time = -1
    /\ degraded = FALSE
    /\ outcome = "none"
    /\ result = << >>
    /\ returned_some = FALSE
    /\ raised_some = FALSE

InitRank ==
    /\ AggregatorIdle
    /\ DedupOff
    /\ rIn \in SeqsUpTo(RankPool, MaxRanked)
    /\ rLoc \in Locations
    /\ rOut = << >>
    /\ rpc = "in"
    /\ ProxyOff
    /\ SourcesOff

RankProcess ==
    /\ rpc = "in"
    /\ rOut' = ProcessJobs(rIn, rLoc)
    /\ rIn' = InputsAfterProcessJobs(rIn, rLoc)
    /\ rpc' = "out"
    /\ UNCHANGED <<aggVars, dedupVars, rLoc, proxyVars, sourceVars>>

NextRank == RankProcess

SpecRank == InitRank /\ [][NextRank]_vars

\* _process_jobs on postings whose titles are 10, 11, 99 and 100 characters long
\* and whose locations hold the search location, one word of it or none
T_Accountant == <<"A","c","c","o","u","n","t","a","n","t">>
T_Accountants == <<"A","c","c","o","u","n","t","a","n","t","s">>
Title99 == [i \in 1..99 |-> "t"]
Title100 == [i \in 1..100 |-> "t"]
T_LagosIsland == <<"L","a","g","o","s"," ","I","s","l","a","n","d">>

RelevancePool ==
    { Posting(Str(T_Accountant), Str(T_Acme), Str(T_LagosIsland), T_Other),
      Posting(Str(T_Accountants), Str(T_Acme), Str(T_Remote), T_Other),
      Posting(Str(Title99), Str(T_Acme), Str(T_Lagos), T_Other),
      Posting(Str(Title100), Str(T_Acme), Str(T_Remote), T_Other),
      Posting(Str(T_Dev), Str(T_Acme), Str(T_Lagos), T_Jooble) }

\* the search locations: one word, and two words of which the first is found in
\* a posting's location
RelevanceLocations == Locations \cup {T_LagosIsland}

InitRelevance ==
    /\ AggregatorIdle
    /\ DedupOff
    /\ rIn \in SeqsUpTo(RelevancePool, MaxRanked)
    /\ rLoc \in RelevanceLocations
    /\ rOut = << >>
    /\ rpc = "in"
    /\ ProxyOff
    /\ SourcesOff

SpecRelevance == InitRelevance /\ [][NextRank]_vars

----------------------------------------------------------------------------
(* Properties of the ranker. *)

\* the postings of xs whose combined score is v, in the order of xs
WithCombined(xs, v) ==
    LET Test(x) == Combined(x) = v IN SelectSeq(xs, Test)

\* the input of _process_jobs, scored, in the input's order
ScoredInput == [i \in 1..Len(rIn) |-> Scored(rIn[i], rLoc)]

\* C12: _process_jobs returns the scored postings in descending order of
\* relevance_score + source_score, and postings with equal combined score stand
\* in the order they had in the input.
C12_SortedDescendingStable ==
    rpc = "out" =>
        /\ Len(rOut) = Len(rIn)
        /\ \A m, n \in 1..Len(rOut) : m < n => Combined(rOut[m]) >= Combined(rOut[n])
        /\ \A k \in 1..Len(rOut) :
              WithCombined(rOut, Combined(rOut[k]))
                  = WithCombined(ScoredInput, Combined(rOut[k]))

\* C12's case: two different postings with one combined score, then a posting
\* with a higher one; the last came out first, the two others in their order
C12_Witness ==
    /\ rpc = "out"
    /\ Len(rIn) = 3
    /\ ScoredInput[1] # ScoredInput[2]
    /\ Combined(ScoredInput[1]) = Combined(ScoredInput[2])
    /\ Combined(ScoredInput[3]) > Combined(ScoredInput[1])
    /\ rOut = <<ScoredInput[3], ScoredInput[1], ScoredInput[2]>>

\* _process_jobs was applied to the example posting alone, for location "Remote"
ExampleProcessed == rpc = "out" /\ rIn = <<ExamplePosting>> /\ rLoc = T_Remote

\* C13 as stated: for search location "Remote" the example posting gets relevance
\* 5.7, source score 3.0 and combined score 8.7.
C13_ExampleScores ==
    ExampleProcessed =>
        /\ rOut[1].relevance_score = 57
        /\ rOut[1].source_score = 30
        /\ Combined(rOut[1]) = 87

\* C13: for search location "Remote" the example posting gets relevance 8.7 (the
\* location "Remote" holds the search location, which adds 3.0 to the 5.7 of
\* the other bonuses), source score 3.0 and combined score 11.7.
C13_ExampleScoresWithLocationBonus ==
    ExampleProcessed =>
        /\ rOut[1].relevance_score = 87
        /\ rOut[1].source_score = 30
        /\ Combined(rOut[1]) = 117

\* C13's case: the example posting has been scored for "Remote"
C13_Witness == ExampleProcessed /\ Len(rOut) = 1

\* C15: every posting _process_jobs returns has a relevance_score of at least 0.1
\* and a source_score of at least 1.0, and its source_score is the constant of its
\* source name: 3.0 JSearch, 2.5 Indeed, 2.0 Jooble, 2.0 Adzuna, 1.5 Jobberman,
\* 1.0 for any other name.
C15_ScoreFloors ==
    rpc = "out" =>
        \A n \in 1..Len(rOut) :
            LET source == Get(rOut[n].job, "source")
            IN  /\ rOut[n].relevance_score >= 1
                /\ rOut[n].source_score >= 10
                /\ rOut[n].source_score =
                      (CASE source = Str(T_JSearch) -> 30
                         [] source = Str(T_Indeed) -> 25
                         [] source = Str(T_Jooble) -> 20
                         [] source = Str(T_Adzuna) -> 20
                         [] source = Str(T_Jobberman) -> 15
                         [] OTHER -> 10)

\* C15's case: a posting whose only score item is the spam penalty, from a source
\* that is not in the table, came out with relevance 0.1 and source score 1.0,
\* next to a spam posting whose bonuses keep it above the floor
C15_Witness ==
    /\ rpc = "out"
    /\ \E n \in 1..Len(rOut) :
          /\ DOMAIN rIn[1] = {"title", "source"}
          /\ rOut[n].job = CleanJobData(rIn[1])
          /\ rOut[n].relevance_score = 1
          /\ rOut[n].source_score = 10
    /\ \E n \in 1..Len(rOut) :
          /\ rOut[n].job["title"] = Str(T_ClickHere)
          /\ rOut[n].relevance_score > 1

----------------------------------------------------------------------------
(* Properties of a whole search. *)

display_fields ==
    {"title", "company", "location", "salary", "description", "job_type", "link"}

\* C14: every posting search_all_sources returns holds a string, empty or not,
\* under each of title, company, location, salary, description, job_type and
\* link, also when a source handed the posting over without one of these keys or
\* with None under it.
C14_DisplayFieldsAreStrings ==
    (pc = "done" /\ outcome = "returned") =>
        \A n \in 1..Len(result) : \A field \in display_fields :
            /\ field \in DOMAIN result[n].job
            /\ result[n].job[field].kind = "str"

\* the names of the tasks of type 'scraper' in the list _build_search_tasks returned
ScraperTaskNames ==
    {search_tasks[i].name : i \in GroupTasks("scraper")}

\* the request asks for the local sources
LocalRequested == IsNigerianLocation(location) \/ include_local

\* C16 as stated: a task of type 'scraper' is in the task list only when the
\* request's location is a Nigerian one or include_local is set.
C16_ScrapersOnlyWhenLocal ==
    pc # "idle" => (ScraperTaskNames # {} => LocalRequested)

\* C16: the Jobberman task is in the task list exactly when the request's location
\* is a Nigerian one or include_local is set; the Indeed task, of type 'scraper'
\* too, is in the list of every request.
C16_JobbermanOnlyWhenLocal ==
    pc # "idle" =>
        /\ ("Jobberman" \in ScraperTaskNames) <=> LocalRequested
        /\ "Indeed" \in ScraperTaskNames
        /\ ScraperTaskNames \subseteq {"Jobberman", "Indeed"}

\* C16's case: the tasks were built for a location that is not Nigerian, without
\* include_local: Indeed is the one scraper task
C16_Witness ==
    /\ pc # "idle"
    /\ location = T_Remote /\ ~include_local
    /\ ScraperTaskNames = {"Indeed"}

----------------------------------------------------------------------------
(* The ProxyManager that IndeedScraper and JobbermanScraper share            *)
(* (src/proxy_manager.py): get_working_proxy runs on the thread of the Indeed *)
(* task, get_random_proxy and get_next_proxy on the thread of the Jobberman   *)
(* task.  No statement of the class takes a lock: between two statements of   *)
(* one thread the other thread may run.  A proxy is a number; the outcome of  *)
(* test_proxy is the network's.                                               *)

MaxProxies == 2
MaxCalls == 2
max_attempts == 3
refresh_sample_size == 5

ProxyIds == 1..MaxProxies

Min(a, b) == IF a <= b THEN a ELSE b

\* random.sample(xs, k): k positions of xs in some order
Sample(xs, k) ==
    { [i \in 1..k |-> xs[p[i]]] : p \in Permutations(1..Len(xs)) }

\* the elements random.choice(xs) may return, xs not empty
Choices(xs) == {xs[i] : i \in 1..Len(xs)}

\* the list after xs.remove(x): the first x is taken out
RECURSIVE RemoveFirst(_, _)
RemoveFirst(xs, x) ==
    IF xs = << >> THEN << >>
    ELSE IF Head(xs) = x THEN Tail(xs)
    ELSE <<Head(xs)>> \o RemoveFirst(Tail(xs), x)

\* get_proxy_stats
GetProxyStats ==
    [total |-> Len(proxies), working |-> Len(working_proxies),
     failed |-> Len(failed_proxies)]

InitProxy ==
    /\ AggregatorIdle
    /\ DedupOff
    /\ RankOff
    /\ SourcesOff
    /\ proxies \in SeqsUpTo(ProxyIds, MaxProxies)
    /\ ProxyManagerNew
    /\ ProxyThreadsIdle

\* self.working_proxies after an in-place change, as the Jobberman thread's local
\* proxy_list sees it when it is the same list object
Aliased(new_working) == IF jalias THEN new_working ELSE jlist

\* More than 300 seconds have passed since last_test_time.  The comparison is
\* made at the start of get_working_proxy only.
FiveMinutesPass ==
    /\ ipc = "idle"
    /\ ~refresh_due
    /\ icalls < MaxCalls
    /\ refresh_due' = TRUE
    /\ UNCHANGED <<aggVars, dedupVars, rankVars, sourceVars, proxies,
                   working_proxies,
                   failed_proxies, current_index, ipc, itest, iattempt, iproxy, iret,
                   icalls, jop, jpc, jlist, jalias, jproxy, jret, jcalls>>

\* get_working_proxy is called: "if current_time - self.last_test_time > 300"
GetWorkingProxy ==
    /\ ipc = "idle"
    /\ icalls < MaxCalls
    /\ ipc' = IF refresh_due THEN "refresh_clear" ELSE "check_working"
    /\ iret' = NoReturn
    /\ UNCHANGED <<aggVars, dedupVars, rankVars, sourceVars, proxies,
                   working_proxies,
                   failed_proxies, current_index, refresh_due, itest, iattempt, iproxy,
                   icalls, jop, jpc, jlist, jalias, jproxy, jret, jcalls>>

\* _refresh_working_proxies: the two lists are bound to new empty lists (a local
\* proxy_list of the other thread keeps the old list) and the sample is drawn
RefreshClear ==
    /\ ipc = "refresh_clear"
    /\ working_proxies' = << >>
    /\ failed_proxies' = << >>
    /\ jalias' = FALSE
    /\ itest' \in Sample(proxies, Min(refresh_sample_size, Len(proxies)))
    /\ ipc' = "refresh_test"
    /\ UNCHANGED <<aggVars, dedupVars, rankVars, sourceVars, proxies, current_index,
                   refresh_due,
                   iattempt, iproxy, iret, icalls, jop, jpc, jlist, jproxy, jret,
                   jcalls>>

\* one round of the loop over test_proxies
RefreshTest(ok) ==
    /\ ipc = "refresh_test"
    /\ itest # << >>
    /\ IF ok
       THEN /\ working_proxies' = Append(working_proxies, Head(itest))
            /\ jlist' = Aliased(Append(working_proxies, Head(itest)))
            /\ UNCHANGED failed_proxies
       ELSE /\ failed_proxies' = Append(failed_proxies, Head(itest))
            /\ UNCHANGED <<working_proxies, jlist>>
    /\ itest' = Tail(itest)
    /\ UNCHANGED <<aggVars, dedupVars, rankVars, sourceVars, proxies, current_index,
                   refresh_due,
                   ipc, iattempt, iproxy, iret, icalls, jop, jpc, jalias, jproxy, jret,
                   jcalls>>

\* the loop is through: "self.last_test_time = current_time"
RefreshDone ==
    /\ ipc = "refresh_test"
    /\ itest = << >>
    /\ refresh_due' = FALSE
    /\ ipc' = "check_working"
    /\ UNCHANGED <<aggVars, dedupVars, rankVars, sourceVars, proxies,
                   working_proxies,
                   failed_proxies, current_index, itest, iattempt, iproxy, iret, icalls,
                   jop, jpc, jlist, jalias, jproxy, jret, jcalls>>

\* "if self.working_proxies:"
CheckWorking ==
    /\ ipc = "check_working"
    /\ ipc' = IF working_proxies # << >> THEN "working_choice" ELSE "fallback_choice"
    /\ iattempt' = 0
    /\ UNCHANGED <<aggVars, dedupVars, rankVars, sourceVars, proxies,
                   working_proxies,
                   failed_proxies, current_index, refresh_due, itest, iproxy, iret,
                   icalls, jop, jpc, jlist, jalias, jproxy, jret, jcalls>>

\* "for _ in range(max_attempts): proxy = random.choice(self.working_proxies)":
\* random.choice raises IndexError on an empty list
WorkingChoice ==
    /\ ipc = "working_choice"
    /\ IF iattempt >= max_attempts
       THEN /\ ipc' = "fallback_choice"
            /\ iattempt' = 0
            /\ UNCHANGED <<iproxy, iret, icalls>>
       ELSE IF working_proxies = << >>
       THEN /\ iret' = Raised("IndexError")
            /\ ipc' = "idle"
            /\ icalls' = icalls + 1
            /\ UNCHANGED <<iattempt, iproxy>>
       ELSE /\ iproxy' \in Choices(working_proxies)
            /\ iattempt' = iattempt + 1
            /\ ipc' = "working_test"
            /\ UNCHANGED <<iret, icalls>>
    /\ UNCHANGED <<aggVars, dedupVars, rankVars, sourceVars, proxies,
                   working_proxies,
                   failed_proxies, current_index, refresh_due, itest, jop, jpc, jlist,
                   jalias, jproxy, jret, jcalls>>

\* the quick test of the chosen proxy: it is returned, or moved to failed_proxies
WorkingTest(ok) ==
    /\ ipc = "working_test"
    /\ IF ok
       THEN /\ iret' = Returned(iproxy)
            /\ ipc' = "idle"
            /\ icalls' = icalls + 1
            /\ UNCHANGED <<working_proxies, failed_proxies, jlist>>
       ELSE /\ working_proxies' = RemoveFirst(working_proxies, iproxy)
            /\ jlist' = Aliased(RemoveFirst(working_proxies, iproxy))
            /\ failed_proxies' = Append(failed_proxies, iproxy)
            /\ ipc' = "working_choice"
            /\ UNCHANGED <<iret, icalls>>
    /\ UNCHANGED <<aggVars, dedupVars, rankVars, sourceVars, proxies, current_index,
                   refresh_due,
                   itest, iattempt, iproxy, jop, jpc, jalias, jproxy, jret, jcalls>>

\* "for _ in range(max_attempts): proxy = self.get_random_proxy()", and
\* "return None" after the loop
FallbackChoice ==
    /\ ipc = "fallback_choice"
    /\ IF iattempt >= max_attempts
       THEN /\ iret' = ReturnedNone
            /\ ipc' = "idle"
            /\ icalls' = icalls + 1
            /\ UNCHANGED <<iattempt, iproxy>>
       ELSE IF proxies = << >>
       THEN /\ iattempt' = iattempt + 1
            /\ UNCHANGED <<ipc, iproxy, iret, icalls>>
       ELSE /\ iproxy' \in Choices(IF working_proxies # << >> THEN working_proxies
                                   ELSE proxies)
            /\ iattempt' = iattempt + 1
            /\ ipc' = "fallback_test"
            /\ UNCHANGED <<iret, icalls>>
    /\ UNCHANGED <<aggVars, dedupVars, rankVars, sourceVars, proxies,
                   working_proxies,
                   failed_proxies, current_index, refresh_due, itest, jop, jpc, jlist,
                   jalias, jproxy, jret, jcalls>>

\* the test of the fallback proxy: "if proxy not in self.working_proxies: append"
FallbackTest(ok) ==
    /\ ipc = "fallback_test"
    /\ IF ok
       THEN /\ working_proxies' = IF iproxy \in Choices(working_proxies)
                                  THEN working_proxies
                                  ELSE Append(working_proxies, iproxy)
            /\ jlist' = Aliased(working_proxies')
            /\ iret' = Returned(iproxy)
            /\ ipc' = "idle"
            /\ icalls' = icalls + 1
       ELSE /\ ipc' = "fallback_choice"
            /\ UNCHANGED <<working_proxies, jlist, iret, icalls>>
    /\ UNCHANGED <<aggVars, dedupVars, rankVars, sourceVars, proxies,
                   failed_proxies,
                   current_index, refresh_due, itest, iattempt, iproxy, jop, jpc,
                   jalias, jproxy, jret, jcalls>>

\* get_random_proxy or get_next_proxy is called: "if not self.proxies: return None"
JobbermanCall(op) ==
    /\ jpc = "idle"
    /\ jcalls < MaxCalls
    /\ jop' = op
    /\ IF proxies = << >>
       THEN jret' = ReturnedNone /\ jcalls' = jcalls + 1 /\ UNCHANGED jpc
       ELSE jret' = NoReturn /\ jpc' = "check" /\ UNCHANGED jcalls
    /\ UNCHANGED <<aggVars, dedupVars, rankVars, sourceVars, proxies,
                   working_proxies,
                   failed_proxies, current_index, refresh_due, ipc, itest, iattempt,
                   iproxy, iret, icalls, jlist, jalias, jproxy>>

\* get_random_proxy: "if self.working_proxies:"; when it is empty the proxy is
\* chosen from self.proxies, which nothing changes after load_proxies
RandomCheck ==
    /\ jpc = "check" /\ jop = "get_random_proxy"
    /\ IF working_proxies # << >>
       THEN jpc' = "random_choice" /\ UNCHANGED <<jret, jcalls>>
       ELSE /\ \E p \in Choices(proxies) : jret' = Returned(p)
            /\ jpc' = "idle"
            /\ jcalls' = jcalls + 1
    /\ UNCHANGED <<aggVars, dedupVars, rankVars, sourceVars, proxies,
                   working_proxies,
                   failed_proxies, current_index, refresh_due, ipc, itest, iattempt,
                   iproxy, iret, icalls, jop, jlist, jalias, jproxy>>

\* get_random_proxy: "return random.choice(self.working_proxies)", the attribute
\* read again
RandomChoice ==
    /\ jpc = "random_choice"
    /\ IF working_proxies = << >>
       THEN jret' = Raised("IndexError")
       ELSE \E p \in Choices(working_proxies) : jret' = Returned(p)
    /\ jpc' = "idle"
    /\ jcalls' = jcalls + 1
    /\ UNCHANGED <<aggVars, dedupVars, rankVars, sourceVars, proxies,
                   working_proxies,
                   failed_proxies, current_index, refresh_due, ipc, itest, iattempt,
                   iproxy, iret, icalls, jop, jlist, jalias, jproxy>>

\* get_next_proxy: the condition of
\* "proxy_list = self.working_proxies if self.working_proxies else self.proxies"
NextCheck ==
    /\ jpc = "check" /\ jop = "get_next_proxy"
    /\ IF working_proxies # << >>
       THEN jpc' = "next_bind" /\ UNCHANGED <<jlist, jalias>>
       ELSE jpc' = "next_index" /\ jlist' = proxies /\ jalias' = FALSE
    /\ UNCHANGED <<aggVars, dedupVars, rankVars, sourceVars, proxies,
                   working_proxies,
                   failed_proxies, current_index, refresh_due, ipc, itest, iattempt,
                   iproxy, iret, icalls, jop, jproxy, jret, jcalls>>

\* get_next_proxy: proxy_list is bound to the list self.working_proxies is now
NextBind ==
    /\ jpc = "next_bind"
    /\ jlist' = working_proxies
    /\ jalias' = TRUE
    /\ jpc' = "next_index"
    /\ UNCHANGED <<aggVars, dedupVars, rankVars, sourceVars, proxies,
                   working_proxies,
                   failed_proxies, current_index, refresh_due, ipc, itest, iattempt,
                   iproxy, iret, icalls, jop, jproxy, jret, jcalls>>

\* get_next_proxy: "proxy = proxy_list[self.current_index]"
NextIndex ==
    /\ jpc = "next_index"
    /\ IF current_index >= Len(jlist)
       THEN /\ jret' = Raised("IndexError")
            /\ jpc' = "idle"
            /\ jcalls' = jcalls + 1
            /\ jalias' = FALSE
            /\ UNCHANGED jproxy
       ELSE /\ jproxy' = jlist[current_index + 1]
            /\ jpc' = "next_advance"
            /\ UNCHANGED <<jret, jcalls, jalias>>
    /\ UNCHANGED <<aggVars, dedupVars, rankVars, sourceVars, proxies,
                   working_proxies,
                   failed_proxies, current_index, refresh_due, ipc, itest, iattempt,
                   iproxy, iret, icalls, jop, jlist>>

\* get_next_proxy: "self.current_index = (self.current_index + 1) % len(proxy_list)"
\* and "return proxy"
NextAdvance ==
    /\ jpc = "next_advance"
    /\ IF Len(jlist) = 0
       THEN jret' = Raised("ZeroDivisionError") /\ UNCHANGED current_index
       ELSE jret' = Returned(jproxy) /\ current_index' = (current_index + 1) % Len(jlist)
    /\ jpc' = "idle"
    /\ jcalls' = jcalls + 1
    /\ jalias' = FALSE
    /\ UNCHANGED <<aggVars, dedupVars, rankVars, sourceVars, proxies,
                   working_proxies,
                   failed_proxies, refresh_due, ipc, itest, iattempt, iproxy, iret,
                   icalls, jop, jlist, jproxy>>

NextProxy ==
    \/ FiveMinutesPass
    \/ GetWorkingProxy
    \/ RefreshClear
    \/ \E ok \in BOOLEAN : RefreshTest(ok)
    \/ RefreshDone
    \/ CheckWorking
    \/ WorkingChoice
    \/ \E ok \in BOOLEAN : WorkingTest(ok)
    \/ FallbackChoice
    \/ \E ok \in BOOLEAN : FallbackTest(ok)
    \/ \E op \in {"get_random_proxy", "get_next_proxy"} : JobbermanCall(op)
    \/ RandomCheck
    \/ RandomChoice
    \/ NextCheck
    \/ NextBind
    \/ NextIndex
    \/ NextAdvance

SpecProxy == InitProxy /\ [][NextProxy]_vars

----------------------------------------------------------------------------
(* Properties of the shared ProxyManager. *)

\* C19: a call of get_random_proxy on the Jobberman thread that found
\* self.working_proxies non-empty in its check still finds it non-empty when it
\* chooses from it, whatever get_working_proxy does on the Indeed thread in
\* between, and the call does not fail.
C19_CheckedListStaysNonEmpty ==
    /\ jpc = "random_choice" => working_proxies # << >>
    /\ jop = "get_random_proxy" => jret.how \in {"none", "returned"}

----------------------------------------------------------------------------
(* The statistics accessor. *)

\* get_search_stats: the proxy statistics and the three configured times
GetSearchStats ==
    [proxy_stats |-> GetProxyStats,
     max_search_time |-> max_total_time,
     api_timeout |-> api_timeout,
     scraper_timeout |-> scraper_timeout]

\* what get_search_stats returns on an aggregator that has run no search
StatsOfNewAggregator ==
    [proxy_stats |-> [total |-> 0, working |-> 0, failed |-> 0],
     max_search_time |-> 75,
     api_timeout |-> 15,
     scraper_timeout |-> 30]

\* the API group was through when 95% of max_total_time or more had been used
ApiGroupUsedUpBudget ==
    /\ pc \in {"scraper_collect", "scraper_exit", "process", "done"}
    /\ 20 * remaining_time <= max_total_time

\* C17: when the API group has used 95% of max_total_time the scraper group is
\* not submitted, and after such a search get_search_stats tells that the
\* scraper group was left out: it does not return what it returns on an
\* aggregator that has run no search.
C17_SkipObservable ==
    /\ ApiGroupUsedUpBudget => ~ScrapersSubmitted
    /\ (pc = "done" /\ ApiGroupUsedUpBudget) => GetSearchStats # StatsOfNewAggregator

----------------------------------------------------------------------------
(* One call of a source's search function with max_results                  *)
(* (src/api_manager.py, src/jobberman_scraper.py).  A response is the list   *)
(* of the items that came back, each TRUE when a posting can be made of it   *)
(* (_process_..._job returns a dict, _is_valid_job holds) and FALSE when     *)
(* not; a returned posting is named by the position of its item.             *)

MaxResults == 2
MaxResponse == 3
search_url_count == 5

Responses == SeqsUpTo(BOOLEAN, MaxResponse)

\* "for job in jobs_data[:max_results]: ... if processed_job: jobs.append(...)"
RECURSIVE SliceLoop(_, _, _, _)
SliceLoop(items, i, max_results, found) ==
    IF i > Min(Len(items), max_results) THEN found
    ELSE SliceLoop(items, i + 1, max_results,
                   IF items[i] THEN Append(found, i) ELSE found)

\* the three API searches: an answer other than 200 leaves jobs empty
SearchJSearch(status_ok, jobs_data, max_results) ==
    IF ~status_ok \/ jobs_data = << >> THEN << >>
    ELSE SliceLoop(jobs_data, 1, max_results, << >>)

SearchJooble(status_ok, jobs_data, max_results) ==
    IF ~status_ok THEN << >> ELSE SliceLoop(jobs_data, 1, max_results, << >>)

SearchAdzuna(status_ok, jobs_data, max_results) ==
    IF ~status_ok THEN << >> ELSE SliceLoop(jobs_data, 1, max_results, << >>)

\* JobbermanScraper._parse_jobs: "for card in job_cards[:max_results]"
ParseJobs(job_cards, max_results) == SliceLoop(job_cards, 1, max_results, << >>)

\* the loop of _parse_jobs_flexible run to the end of potential_jobs[:max_results * 2]
ParseJobsFlexible_NoBreak(potential_jobs, max_results) ==
    SliceLoop(potential_jobs, 1, max_results * 2, << >>)

\* "for element in potential_jobs[:max_results * 2]: ... jobs.append(job_data);
\* if len(jobs) >= max_results: break"
RECURSIVE FlexibleLoop(_, _, _, _)
FlexibleLoop(items, i, max_results, found) ==
    IF i > Min(Len(items), max_results * 2) THEN found
    ELSE IF items[i]
         THEN IF Len(found) + 1 >= max_results THEN Append(found, i)
              ELSE FlexibleLoop(items, i + 1, max_results, Append(found, i))
         ELSE FlexibleLoop(items, i + 1, max_results, found)

\* JobbermanScraper._parse_jobs_flexible
ParseJobsFlexible(potential_jobs, max_results) ==
    FlexibleLoop(potential_jobs, 1, max_results, << >>)

InitSources ==
    /\ AggregatorIdle
    /\ DedupOff
    /\ RankOff
    /\ ProxyOff
    /\ sMax \in 1..MaxResults
    /\ spc = "start"
    /\ sSource = "none"
    /\ sUrl = 0
    /\ sCards = << >> /\ sElements = << >>
    /\ sPath = "none"
    /\ sJobs = << >>

\* search_jsearch, search_jooble or search_adzuna, from call to return
SearchApi(source, status_ok, jobs_data) ==
    /\ spc = "start"
    /\ sSource' = source
    /\ sCards' = jobs_data
    /\ sJobs' = CASE source = "JSearch" -> SearchJSearch(status_ok, jobs_data, sMax)
                  [] source = "Jooble" -> SearchJooble(status_ok, jobs_data, sMax)
                  [] source = "Adzuna" -> SearchAdzuna(status_ok, jobs_data, sMax)
    /\ sPath' = IF status_ok THEN "api" ELSE "none"
    /\ spc' = "returned"
    /\ UNCHANGED <<aggVars, dedupVars, rankVars, proxyVars, sMax, sUrl, sElements>>

\* JobbermanScraper.search_jobs up to its loop over search_urls
JobbermanSearchJobs ==
    /\ spc = "start"
    /\ sSource' = "Jobberman"
    /\ spc' = "urls"
    /\ UNCHANGED <<aggVars, dedupVars, rankVars, proxyVars, sMax, sUrl, sCards,
                   sElements, sPath, sJobs>>

\* one round of the loop: the page is fetched (or not, or is a "blocked" page) and
\* parsed; the flexible parse is tried when the standard one found nothing in a
\* page of more than 1000 characters; the loop is left when jobs is not empty
JobbermanTryUrl(fetched, substantial, job_cards, potential_jobs) ==
    /\ spc = "urls"
    /\ sUrl < search_url_count
    /\ sUrl' = sUrl + 1
    /\ IF ~fetched
       THEN UNCHANGED <<sCards, sElements, sPath, sJobs, spc>>
       ELSE /\ sCards' = job_cards
            /\ IF ParseJobs(job_cards, sMax) # << >>
               THEN /\ sJobs' = ParseJobs(job_cards, sMax)
                    /\ sPath' = "standard"
                    /\ spc' = "returned"
                    /\ UNCHANGED sElements
               ELSE IF substantial
               THEN /\ sElements' = potential_jobs
                    /\ sJobs' = ParseJobsFlexible(potential_jobs, sMax)
                    /\ sPath' = IF sJobs' # << >> THEN "flexible" ELSE "none"
                    /\ spc' = IF sJobs' # << >> THEN "returned" ELSE "urls"
               ELSE /\ sJobs' = << >>
                    /\ sPath' = "none"
                    /\ UNCHANGED <<sElements, spc>>
    /\ UNCHANGED <<aggVars, dedupVars, rankVars, proxyVars, sMax, sSource>>

\* every URL has been tried: "return jobs"
JobbermanReturn ==
    /\ spc = "urls"
    /\ sUrl = search_url_count
    /\ spc' = "returned"
    /\ UNCHANGED <<aggVars, dedupVars, rankVars, proxyVars, sMax, sSource, sUrl,
                   sCards, sElements, sPath, sJobs>>

NextSources ==
    \/ \E source \in {"JSearch", "Jooble", "Adzuna"}, status_ok \in BOOLEAN,
          jobs_data \in Responses : SearchApi(source, status_ok, jobs_data)
    \/ JobbermanSearchJobs
    \/ \E fetched \in BOOLEAN :
       \E job_cards \in (IF fetched THEN Responses ELSE {<< >>}) :
       \E substantial \in (IF fetched /\ ParseJobs(job_cards, sMax) = << >>
                           THEN BOOLEAN ELSE {FALSE}) :
       \E potential_jobs \in (IF substantial THEN Responses ELSE {<< >>}) :
          JobbermanTryUrl(fetched, substantial, job_cards, potential_jobs)
    \/ JobbermanReturn

SpecSources == InitSources /\ [][NextSources]_vars

----------------------------------------------------------------------------
(* Properties of the sources. *)

\* the number of items of a response a posting can be made of
Usable(items) == Cardinality({i \in 1..Len(items) : items[i]})

\* C18: a call of search_jsearch, search_jooble, search_adzuna or of
\* JobbermanScraper.search_jobs (standard or flexible parse) returns at most
\* max_results postings, whatever the size of the response.
C18_AtMostMaxResults ==
    spc = "returned" => Len(sJobs) <= sMax

\* C18's case: the flexible parse of a Jobberman page found more usable elements
\* than max_results among the max_results * 2 it looks at, and search_jobs
\* returned max_results postings
C18_Witness ==
    /\ spc = "returned"
    /\ sSource = "Jobberman" /\ sPath = "flexible"
    /\ Usable(SubSeq(sElements, 1, Min(Len(sElements), sMax * 2))) > sMax
    /\ Len(sJobs) = sMax

----------------------------------------------------------------------------
(* Properties of the per-task timeout. *)

\* the second at which the tasks of group g were submitted
SubmittedAt(g) ==
    IF g = "api" THEN deadline[g] - api_group_timeout ELSE deadline[g] - remaining_time

\* task i has just finished, before its group's end_time and later than its own
\* timeout after it was submitted; as_completed has not yielded it yet
FinishedPastOwnTimeout(i) ==
    LET g == search_tasks[i].type
    IN  /\ Collecting(g)
        /\ fut[i].state = "finished" /\ ~fut[i].yielded /\ ~fut[i].late
        /\ now - SubmittedAt(g) > search_tasks[i].timeout

\* C20: a task whose search function is still running when the task's own timeout
\* (15 s, 25 s, 30 s) has passed, and ends before the group's end_time, hands an
\* empty list to its group: what the search function returns after the timeout
\* is not used.
C20_PastOwnTimeoutContributesNothing ==
    \A i \in DOMAIN fut : FinishedPastOwnTimeout(i) => fut[i].result = << >>

----------------------------------------------------------------------------
(* Properties of the order of the two groups. *)

\* a step that submits a task of group g to a pool
Submits(g) ==
    \E i \in DOMAIN fut' :
        /\ search_tasks'[i].type = g
        /\ fut'[i].state = "running"
        /\ (i \notin DOMAIN fut \/ fut[i].state # "running")

\* C21: no scraper task is submitted before every API task has ended: the step
\* that submits the API tasks is taken with no scraper task submitted, the step
\* that submits the scraper tasks is taken with every API future finished, and
\* at no time is a task of each group running.
C21_GroupsDoNotOverlap ==
    [][ /\ Submits("api") => (pc = "idle" /\ ~Submits("scraper"))
        /\ Submits("scraper") => (\A i \in GroupTasks("api") : fut[i].state = "finished")
        /\ ~(SomeRunning("api")' /\ SomeRunning("scraper")') ]_vars

\* the API group timed out with a task running, and the scrapers run after it
C21_Witness ==
    /\ "api" \in timed_out
    /\ SomeRunning("scraper")
    /\ now > api_group_timeout

----------------------------------------------------------------------------
(* Properties of the scraper group's deadline. *)

\* C22: while the scraper group is collected, its end_time is the second it was
\* submitted plus the lesser of scraper_timeout and remaining_time, and the
\* calling thread is not found waiting for a scraper task more than
\* scraper_timeout after the group was submitted.
C22_ScraperGroupBoundedByScraperTimeout ==
    Collecting("scraper") =>
        /\ deadline["scraper"]
              = (max_total_time - remaining_time) + Min(scraper_timeout, remaining_time)
        /\ (done_order = << >> /\ SomeRunning("scraper"))
              => now - (max_total_time - remaining_time) <= scraper_timeout

----------------------------------------------------------------------------
(* Properties of the location bonus. *)

\* the request location is contained in the posting's location
LocationContained(job, loc) ==
    /\ loc # << >>
    /\ Truthy(Get(job, "location"))
    /\ Contains(Lower(job["location"].s), Lower(loc))

\* a word of more than 2 characters of the request location is found in the
\* posting's location
LocationTokenFound(job, loc) ==
    /\ loc # << >>
    /\ Truthy(Get(job, "location"))
    /\ \E i \in 1..Len(Split(Lower(loc))) :
          /\ Len(Split(Lower(loc))[i]) > 2
          /\ Contains(Lower(job["location"].s), Split(Lower(loc))[i])

\* the bonus for two locations of Nigeria
LocalBonus(job, loc) ==
    IF /\ loc # << >>
       /\ Truthy(Get(job, "location"))
       /\ IsNigerianLocation(loc)
       /\ IsNigerianLocation(Lower(job["location"].s))
    THEN 20 ELSE 0

\* the score items that take no account of the location
BonusesBesideLocation(job) ==
    SalaryBonus(job) + DescriptionBonus(job) + LinkBonus(job) + CompanyBonus(job)
    + TitleBonus(job)

\* every returned posting has the relevance score that a location bonus of
\* exact for a contained location, else partial for a found word, else 0, gives
RelevanceWithLocationBonus(exact, partial) ==
    rpc = "out" =>
        \A i \in 1..Len(rOut) :
            rOut[i].relevance_score
               = Max(10 + (IF LocationContained(rOut[i].job, rLoc) THEN exact
                           ELSE IF LocationTokenFound(rOut[i].job, rLoc) THEN partial
                           ELSE 0)
                        + LocalBonus(rOut[i].job, rLoc)
                        + BonusesBesideLocation(rOut[i].job), 1)

\* C23 as stated: the location bonus is +2.0 when the request location is
\* contained in the posting's location, otherwise +1.0 when a word of more than
\* 2 characters of it is found there, otherwise 0; never both.
C23_LocationBonusTwoOrOne == RelevanceWithLocationBonus(20, 10)

\* C23 as amended: the location bonus is +3.0 when the request location is
\* contained in the posting's location, otherwise +1.5 when a word of more than
\* 2 characters of it is found there, otherwise 0; never both.
C23_LocationBonusThreeOrOneAndAHalf == RelevanceWithLocationBonus(30, 15)

\* a list was processed that holds a posting with the location contained, one
\* with only a word found and one with neither, none on the floor
C23_Witness ==
    /\ rpc = "out"
    /\ \E i, j, k \in 1..Len(rOut) :
          /\ LocationContained(rOut[i].job, rLoc)
          /\ ~LocationContained(rOut[j].job, rLoc) /\ LocationTokenFound(rOut[j].job, rLoc)
          /\ ~LocationContained(rOut[k].job, rLoc) /\ ~LocationTokenFound(rOut[k].job, rLoc)
          /\ \A n \in {i, j, k} : rOut[n].relevance_score > 1

----------------------------------------------------------------------------
(* Properties of the title bonus. *)

TitleLength(job) == IF Truthy(Get(job, "title")) THEN Len(job["title"].s) ELSE 0

SpamPenalty(job) ==
    IF /\ Truthy(Get(job, "title"))
       /\ \E spam \in spam_indicators : Contains(Lower(job["title"].s), spam)
    THEN 20 ELSE 0

\* every returned posting has the relevance score that a title bonus of +0.5 for
\* the title lengths from least to 99 gives
RelevanceWithTitleBonus(least) ==
    rpc = "out" =>
        \A i \in 1..Len(rOut) :
            rOut[i].relevance_score
               = Max(10 + LocationBonus(rOut[i].job, rLoc) + SalaryBonus(rOut[i].job)
                        + DescriptionBonus(rOut[i].job) + LinkBonus(rOut[i].job)
                        + CompanyBonus(rOut[i].job)
                        + (IF /\ TitleLength(rOut[i].job) >= least
                              /\ TitleLength(rOut[i].job) < 100
                           THEN 5 ELSE 0)
                        - SpamPenalty(rOut[i].job), 1)

\* C24 as stated: the title bonus of +0.5 is applied exactly when the title is
\* 10 to 99 characters long: a title of 10 characters gets it, one of 100 does not.
C24_TitleBonusFromTen == RelevanceWithTitleBonus(10)

\* C24 as amended: the title bonus of +0.5 is applied exactly when the title is
\* 11 to 99 characters long: titles of 10 and of 100 characters do not get it,
\* titles of 11 and of 99 characters do.
C24_TitleBonusFromEleven == RelevanceWithTitleBonus(11)

\* a list was processed that holds titles of 10, of 99 and of 100 characters
C24_Witness ==
    /\ rpc = "out"
    /\ \A n \in {10, 99, 100} : \E i \in 1..Len(rOut) : TitleLength(rOut[i].job) = n

----------------------------------------------------------------------------
(* Properties of _safe_search_with_timeout on a worker thread. *)

\* C25: when a worker thread's call of _safe_search_with_timeout ends for a
\* source whose search function returns without error, the search function was
\* called and the future holds the postings it returned, unchanged.
C25_SuccessfulSourceIsCalledAndUsed ==
    [][ \A i \in DOMAIN fut :
           \A beh \in SourceBehaviours(search_tasks[i].source) :
              (WorkerFinish(i, beh) /\ beh.how = "return")
                 => (fut'[i].called /\ fut'[i].result = beh.out) ]_vars

----------------------------------------------------------------------------
(* "Process results" of search_all_sources: _deduplicate_jobs, then
   _process_jobs, on merged postings that hold the markers and the whitespace
   _clean_job_data removes. *)

T_JobTitleDev == JobTitleMarker \o <<" ">> \o T_Dev
T_PositionDev == PositionMarker \o T_Dev
T_AcmeCompany == T_Acme \o DashCompanyMarker
T_LagosState == <<"L","a","g","o","s"," ","S","t","a","t","e">>
T_LagosWideState == <<"L","a","g","o","s"," "," ","S","t","a","t","e">>

MergedPool ==
    { Posting(Str(T_Dev), Str(T_Acme), Str(T_LagosState), T_JSearch),
      Posting(Str(T_JobTitleDev), Str(T_Acme), Str(T_LagosState), T_Jooble),
      Posting(Str(T_PositionDev), Str(T_Acme), Str(T_Lagos), T_Adzuna),
      Posting(Str(T_Dev), Str(T_AcmeCompany), Str(T_Lagos), T_Indeed),
      Posting(Str(T_Dev), Str(T_Acme), Str(T_LagosWideState), T_Jobberman),
      Posting(Str(T_Ops), Str(T_Acme), Str(T_Lagos), T_JSearch) }

InitResults ==
    /\ AggregatorIdle
    /\ dIn \in SeqsUpTo(MergedPool, MaxJobs)
    /\ dOut = << >> /\ dOut2 = << >> /\ dpc = "in"
    /\ rIn = << >> /\ rLoc \in Locations /\ rOut = << >> /\ rpc = "off"
    /\ ProxyOff
    /\ SourcesOff

\* unique_jobs = self._deduplicate_jobs(all_jobs)
ResultsDeduplicate ==
    /\ dpc = "in"
    /\ dOut' = DeduplicateJobs(dIn)
    /\ dpc' = "once"
    /\ rIn' = dOut'
    /\ rpc' = "in"
    /\ UNCHANGED <<aggVars, dIn, dOut2, rLoc, rOut, proxyVars, sourceVars>>

\* processed_jobs = self._process_jobs(unique_jobs, location)
ResultsProcess ==
    /\ dpc = "once"
    /\ rpc = "in"
    /\ rOut' = ProcessJobs(rIn, rLoc)
    /\ rIn' = InputsAfterProcessJobs(rIn, rLoc)
    /\ rpc' = "out"
    /\ UNCHANGED <<aggVars, dedupVars, rLoc, proxyVars, sourceVars>>

NextResults == ResultsDeduplicate \/ ResultsProcess

SpecResults == InitResults /\ [][NextResults]_vars

\* C26: no two postings of the returned list have the same key, the key taken
\* of the returned (cleaned) title, company and location.
C26_ReturnedKeysDistinct ==
    (dpc = "once" /\ rpc = "out") =>
        \A m, n \in 1..Len(rOut) :
            m # n => CreateJobHash(rOut[m].job) # CreateJobHash(rOut[n].job)

----------------------------------------------------------------------------
(* ProxyManager called from one thread at a time: a call of a method starts
   only when no other call is in progress. *)

NextProxySequential ==
    \/ jpc = "idle" /\ FiveMinutesPass
    \/ jpc = "idle" /\ GetWorkingProxy
    \/ jpc = "idle" /\ RefreshClear
    \/ jpc = "idle" /\ \E ok \in BOOLEAN : RefreshTest(ok)
    \/ jpc = "idle" /\ RefreshDone
    \/ jpc = "idle" /\ CheckWorking
    \/ jpc = "idle" /\ WorkingChoice
    \/ jpc = "idle" /\ \E ok \in BOOLEAN : WorkingTest(ok)
    \/ jpc = "idle" /\ FallbackChoice
    \/ jpc = "idle" /\ \E ok \in BOOLEAN : FallbackTest(ok)
    \/ ipc = "idle" /\ \E op \in {"get_random_proxy", "get_next_proxy"} : JobbermanCall(op)
    \/ ipc = "idle" /\ RandomCheck
    \/ ipc = "idle" /\ RandomChoice
    \/ ipc = "idle" /\ NextCheck
    \/ ipc = "idle" /\ NextBind
    \/ ipc = "idle" /\ NextIndex
    \/ ipc = "idle" /\ NextAdvance

SpecProxySequential == InitProxy /\ [][NextProxySequential]_vars

\* the list get_next_proxy indexes
ActiveList == IF working_proxies # << >> THEN working_proxies ELSE proxies

\* C27: between calls, with proxies loaded, current_index is a valid index of
\* the active list (working_proxies if non-empty, else proxies); get_next_proxy
\* does not raise.
C27_NextProxyIndexValid ==
    /\ (ipc = "idle" /\ jpc = "idle" /\ proxies # << >>)
          => current_index < Len(ActiveList)
    /\ jop = "get_next_proxy" => jret.how \in {"none", "returned"}


\* C28: get_working_proxy returns a proxy or None and does not raise; an attempt
\* of its first loop does not find working_proxies empty.
C28_GetWorkingProxyNeverRaises ==
    /\ iret.how \in {"none", "returned"}
    /\ (ipc = "working_choice" /\ iattempt < max_attempts) => working_proxies # << >>

\* no element of xs is in it twice
NoDuplicates(xs) == Cardinality(Choices(xs)) = Len(xs)

\* C29: between calls of get_working_proxy no proxy is in working_proxies and in
\* failed_proxies, neither list holds a proxy twice, and get_proxy_stats reports
\* working + failed <= total.
C29_BookkeepingConsistent ==
    ipc = "idle" =>
        /\ Choices(working_proxies) \cap Choices(failed_proxies) = {}
        /\ NoDuplicates(working_proxies)
        /\ NoDuplicates(failed_proxies)
        /\ GetProxyStats.working + GetProxyStats.failed <= GetProxyStats.total

----------------------------------------------------------------------------
(* Properties of what _process_jobs does to its argument. *)

====
